---- MODULE Spec2Model ----
(* Model of home_info.py: the AddressValidator predicates, the parsing of the  *)
(* generation service's replies in HomeInfoRetriever, and the command-line     *)
(* flow of main.  A Python str is a sequence of one-character strings.         *)
EXTENDS Integers, Sequences, FiniteSets, TLC

VARIABLES
    fn,        \* which function a pure-function specification applies
    arg,       \* its argument (a str)
    ret,       \* <<>> before the call, <<result>> after it
    pc,        \* main: position in the command-line flow
    stdin,     \* main: number of input() calls made so far
    street, city, state, zipcode,   \* main: the locals holding accepted input
    full_address,                  \* main: the address handed to the retriever
    calls,     \* number of calls of get_home_information
    requests,  \* generation requests issued so far, in order
    pending,   \* generation requests issued and not yet completed
    overview, details, schools,    \* locals of get_home_information
    home_info, \* its result: "none", a HomeInformation, or a raised exception
    out        \* lines printed by main, in order

vars == <<fn, arg, ret, pc, stdin, street, city, state, zipcode, full_address,
          calls, requests, pending, overview, details, schools, home_info, out>>

mainVars == <<pc, stdin, street, city, state, zipcode, full_address,
              calls, requests, pending, overview, details, schools, home_info, out>>

-----------------------------------------------------------------------------
(* Characters and the str methods the program uses.                          *)

LowerLetters == <<"a","b","c","d","e","f","g","h","i","j","k","l","m",
                  "n","o","p","q","r","s","t","u","v","w","x","y","z">>
UpperLetters == <<"A","B","C","D","E","F","G","H","I","J","K","L","M",
                  "N","O","P","Q","R","S","T","U","V","W","X","Y","Z">>

Range(f) == {f[i] : i \in DOMAIN f}

Digit == {"0","1","2","3","4","5","6","7","8","9"}
Letter == Range(LowerLetters) \cup Range(UpperLetters)
Whitespace == {" ", "\t", "\n", "\r", "\f"}
WordChar == Digit \cup Letter \cup {"_"}

\* str.lower() / str.upper() on one character
LowerOf == [c \in Range(UpperLetters) |->
               LowerLetters[CHOOSE i \in DOMAIN UpperLetters : UpperLetters[i] = c]]
UpperOf == [c \in Range(LowerLetters) |->
               UpperLetters[CHOOSE i \in DOMAIN LowerLetters : LowerLetters[i] = c]]
lower_char(c) == IF c \in DOMAIN LowerOf THEN LowerOf[c] ELSE c
upper_char(c) == IF c \in DOMAIN UpperOf THEN UpperOf[c] ELSE c

lower(s) == [i \in DOMAIN s |-> lower_char(s[i])]
upper(s) == [i \in DOMAIN s |-> upper_char(s[i])]
isalpha(s) == s # <<>> /\ \A i \in DOMAIN s : s[i] \in Letter

\* str.strip(): drop leading and trailing whitespace
RECURSIVE lstrip(_)
lstrip(s) == IF s # <<>> /\ Head(s) \in Whitespace THEN lstrip(Tail(s)) ELSE s
RECURSIVE rstrip(_)
rstrip(s) == IF s # <<>> /\ s[Len(s)] \in Whitespace
             THEN rstrip(SubSeq(s, 1, Len(s) - 1)) ELSE s
strip(s) == rstrip(lstrip(s))

SetMax(S) == CHOOSE x \in S : \A y \in S : x >= y
SetMin(S) == CHOOSE x \in S : \A y \in S : x <= y

-----------------------------------------------------------------------------
(* Python's re, as far as the program's patterns use it.  A pattern is a    *)
(* tree; Ends(re, s, P, ic) is the set of positions (number of characters   *)
(* consumed) where a match of re that starts at a position of P can end.    *)
(* ic is re.IGNORECASE.                                                     *)

Cls(S)    == [t |-> "cls", neg |-> FALSE, set |-> S]
NotCls(S) == [t |-> "cls", neg |-> TRUE, set |-> S]
Lit(c)    == Cls({c})
Cat(rs)   == [t |-> "cat", items |-> rs]
Alt(rs)   == [t |-> "alt", items |-> rs]
Star(r)   == [t |-> "star", r |-> r]
Plus(r)   == Cat(<<r, Star(r)>>)
Opt(r)    == [t |-> "opt", r |-> r]
Times(r, n) == Cat([i \in 1..n |-> r])
Word(w)   == Cat([i \in DOMAIN w |-> Lit(w[i])])
WB        == [t |-> "wb"]      \* \b
BOS       == [t |-> "bos"]     \* ^
EOS       == [t |-> "eos"]     \* $
Dot       == NotCls({"\n"})    \* .
D         == Cls(Digit)        \* \d
Sp        == Cls(Whitespace)   \* \s

\* \b: exactly one side of position p is a word character
AtWordBoundary(s, p) ==
    LET before == p >= 1 /\ s[p] \in WordChar
        after  == p < Len(s) /\ s[p + 1] \in WordChar
    IN  before # after

\* $ without re.MULTILINE: at the end, or just before a final newline
AtEnd(s, p) == p = Len(s) \/ (p = Len(s) - 1 /\ s[Len(s)] = "\n")

ClsHas(re, c, ic) ==
    LET in == \/ c \in re.set
              \/ ic /\ (lower_char(c) \in re.set \/ upper_char(c) \in re.set)
    IN  in # re.neg

RECURSIVE Ends(_, _, _, _)
RECURSIVE EndsCat(_, _, _, _, _)
RECURSIVE EndsStar(_, _, _, _, _)

Ends(re, s, P, ic) ==
    CASE re.t = "cls"  -> {p + 1 : p \in {q \in P : q < Len(s) /\ ClsHas(re, s[q + 1], ic)}}
      [] re.t = "cat"  -> EndsCat(re.items, 1, s, P, ic)
      [] re.t = "alt"  -> UNION {Ends(re.items[i], s, P, ic) : i \in DOMAIN re.items}
      [] re.t = "star" -> EndsStar(re.r, s, P, P, ic)
      [] re.t = "opt"  -> P \cup Ends(re.r, s, P, ic)
      [] re.t = "wb"   -> {p \in P : AtWordBoundary(s, p)}
      [] re.t = "bos"  -> {p \in P : p = 0}
      [] re.t = "eos"  -> {p \in P : AtEnd(s, p)}

EndsCat(items, k, s, P, ic) ==
    IF k > Len(items) \/ P = {} THEN P
    ELSE EndsCat(items, k + 1, s, Ends(items[k], s, P, ic), ic)

EndsStar(r, s, seen, frontier, ic) ==
    LET new == Ends(r, s, frontier, ic) \ seen
    IN  IF new = {} THEN seen ELSE EndsStar(r, s, seen \cup new, new, ic)

\* re.match(pattern, s): a match starting at position 0
re_match(re, s, ic) == Ends(re, s, {0}, ic) # {}

\* the character class a match of re must begin with (re begins with a literal)
RECURSIVE FirstCls(_)
FirstCls(re) == IF re.t = "cat" THEN FirstCls(re.items[1]) ELSE re

\* re.search(pattern, s).group(1) for a pattern "prefix(group)" whose prefix
\* begins with a literal: the match with the leftmost start; the greedy
\* prefix, then the greedy group, take the longest alternative that lets the
\* whole pattern match.  None when nothing matches, <<group>> otherwise.
None == <<>>
MatchStarts(prefix, group, s, ic) ==
    {p \in {e - 1 : e \in Ends(FirstCls(prefix), s, 0..(Len(s) - 1), ic)} :
        Ends(group, s, Ends(prefix, s, {p}, ic), ic) # {}}
GroupFrom(group, s, ic, gs) == <<SubSeq(s, gs + 1, SetMax(Ends(group, s, {gs}, ic)))>>
GroupOfMatchAt(prefix, group, s, ic, p0) ==
    GroupFrom(group, s, ic,
              SetMax({e \in Ends(prefix, s, {p0}, ic) : Ends(group, s, {e}, ic) # {}}))
GroupOfLeftmost(prefix, group, s, ic, starts) ==
    IF starts = {} THEN None
    ELSE GroupOfMatchAt(prefix, group, s, ic, SetMin(starts))
re_search_group(prefix, group, s, ic) ==
    GroupOfLeftmost(prefix, group, s, ic, MatchStarts(prefix, group, s, ic))

-----------------------------------------------------------------------------
(* AddressValidator                                                          *)

MaxStreetLength == 100
MinStreetLength == 5
MaxCityLength == 50

StreetTypes == <<<<"s", "t", "r", "e", "e", "t">>,
                <<"s", "t">>,
                <<"a", "v", "e", "n", "u", "e">>,
                <<"a", "v", "e">>,
                <<"r", "o", "a", "d">>,
                <<"r", "d">>,
                <<"b", "o", "u", "l", "e", "v", "a", "r", "d">>,
                <<"b", "l", "v", "d">>,
                <<"l", "a", "n", "e">>,
                <<"l", "n">>,
                <<"d", "r", "i", "v", "e">>,
                <<"d", "r">>>>

\* variant: the pattern without the street-name word
StreetPattern_NoName ==
    Cat(<<Plus(D), Star(Dot),
          Alt([i \in DOMAIN StreetTypes |-> Word(StreetTypes[i])]), WB, Star(Dot)>>)

StreetPattern ==
    Cat(<<Plus(D), Star(Dot), WB, Plus(Cls(Letter)), WB, Star(Dot),
          Alt([i \in DOMAIN StreetTypes |-> Word(StreetTypes[i])]), WB, Star(Dot)>>)

validate_street(s) ==
    IF s = <<>> \/ Len(strip(s)) < MinStreetLength \/ Len(s) > MaxStreetLength
    THEN FALSE
    ELSE re_match(StreetPattern, lower(s), FALSE)

validate_city(s) ==
    /\ s # <<>>
    /\ Len(s) <= MaxCityLength
    /\ \A i \in DOMAIN s : s[i] \in Letter \/ s[i] \in Whitespace

valid_states == {
    <<"A", "L">>, <<"A", "K">>, <<"A", "Z">>, <<"A", "R">>, <<"C", "A">>,
    <<"C", "O">>, <<"C", "T">>, <<"D", "E">>, <<"F", "L">>, <<"G", "A">>,
    <<"H", "I">>, <<"I", "D">>, <<"I", "L">>, <<"I", "N">>, <<"I", "A">>,
    <<"K", "S">>, <<"K", "Y">>, <<"L", "A">>, <<"M", "E">>, <<"M", "D">>,
    <<"M", "A">>, <<"M", "I">>, <<"M", "N">>, <<"M", "S">>, <<"M", "O">>,
    <<"M", "T">>, <<"N", "E">>, <<"N", "V">>, <<"N", "H">>, <<"N", "J">>,
    <<"N", "M">>, <<"N", "Y">>, <<"N", "C">>, <<"N", "D">>, <<"O", "H">>,
    <<"O", "K">>, <<"O", "R">>, <<"P", "A">>, <<"R", "I">>, <<"S", "C">>,
    <<"S", "D">>, <<"T", "N">>, <<"T", "X">>, <<"U", "T">>, <<"V", "T">>,
    <<"V", "A">>, <<"W", "A">>, <<"W", "V">>, <<"W", "I">>, <<"W", "Y">> }

\* variant: the code is compared without upper-casing it
validate_state_NoUpper(s) ==
    s # <<>> /\ Len(s) = 2 /\ isalpha(s) /\ s \in valid_states

validate_state(s) ==
    s # <<>> /\ Len(s) = 2 /\ isalpha(s) /\ upper(s) \in valid_states

ZipPattern ==
    Cat(<<BOS, Times(D, 5), Opt(Cat(<<Lit("-"), Times(D, 4)>>)), EOS>>)

validate_zipcode(s) == re_match(ZipPattern, s, FALSE)

-----------------------------------------------------------------------------
(* Values and exceptions.  An Optional value is <<>> (None) or <<v>>.  A     *)
(* float is the pair of its integer part and its fraction digits; float()   *)
(* and int() raise ValueError on a str that is not a literal.                *)

DigitSeq == <<"0","1","2","3","4","5","6","7","8","9">>
DigitValue(c) == (CHOOSE i \in DOMAIN DigitSeq : DigitSeq[i] = c) - 1

RECURSIVE ToNat(_)
ToNat(s) == IF s = <<>> THEN 0
            ELSE 10 * ToNat(SubSeq(s, 1, Len(s) - 1)) + DigitValue(s[Len(s)])

RECURSIVE DropTrailingZeros(_)
DropTrailingZeros(s) ==
    IF s # <<>> /\ s[Len(s)] = "0" THEN DropTrailingZeros(SubSeq(s, 1, Len(s) - 1))
    ELSE s

IsDigits(s) == s # <<>> /\ \A i \in DOMAIN s : s[i] \in Digit

\* str.replace(',', '')
remove_commas(s) == SelectSeq(s, LAMBDA c : c # ",")

\* int(s): <<n>>, or <<>> when int raises ValueError
int(s) == IF IsDigits(s) THEN <<ToNat(s)>> ELSE <<>>

\* float(s): <<[int, frac]>>, or <<>> when float raises ValueError
float(s) ==
    LET dots == {i \in DOMAIN s : s[i] = "."}
    IN  IF dots = {}
        THEN IF IsDigits(s) THEN <<[int |-> ToNat(s), frac |-> <<>>]>> ELSE <<>>
        ELSE IF /\ Cardinality(dots) = 1
                /\ Len(s) > 1
                /\ \A i \in DOMAIN s : i \in dots \/ s[i] \in Digit
             THEN <<[int |-> ToNat(SubSeq(s, 1, SetMin(dots) - 1)),
                     frac |-> DropTrailingZeros(SubSeq(s, SetMin(dots) + 1, Len(s)))]>>
             ELSE <<>>

-----------------------------------------------------------------------------
(* HomeInfoRetriever: the replies of the generation service and their        *)
(* parsing.  A reply either raises (the transport failed), or carries text,  *)
(* or carries no text (message.content is None).                             *)

TextReply(x)  == [kind |-> "text", text |-> x, exc |-> ""]
NoneReply     == [kind |-> "none", text |-> <<>>, exc |-> ""]
RaiseReply(e) == [kind |-> "raise", text |-> <<>>, exc |-> e]

\* the outcome of a function: a returned value or a raised exception
Return(v) == [raised |-> FALSE, exc |-> "", value |-> v]
Raise(e)  == [raised |-> TRUE, exc |-> e, value |-> <<>>]

SquareFeetLabel == Cat(<<Word(<<"S", "q", "u", "a", "r", "e">>), Star(Sp), Word(<<"F", "e", "e", "t">>), Opt(Lit(":")), Star(Sp)>>)
BedroomsLabel == Cat(<<Word(<<"B", "e", "d", "r", "o", "o", "m">>), Opt(Lit("s")), Opt(Lit(":")), Star(Sp)>>)
BathroomsLabel == Cat(<<Word(<<"B", "a", "t", "h", "r", "o", "o", "m">>), Opt(Lit("s")), Opt(Lit(":")), Star(Sp)>>)
EstimatedValueLabel ==
    Cat(<<Word(<<"E", "s", "t", "i", "m", "a", "t", "e", "d">>), Star(Sp), Word(<<"V", "a", "l", "u", "e">>), Opt(Lit(":")), Star(Sp),
          Opt(Lit("$")), Star(Sp)>>)
YearBuiltLabel == Cat(<<Word(<<"Y", "e", "a", "r">>), Star(Sp), Word(<<"B", "u", "i", "l", "t">>), Opt(Lit(":")), Star(Sp)>>)

Grouped == Cat(<<D, Star(Cls(Digit \cup {","}))>>)     \* (\d[\d,]*)
Integer == Plus(D)                                      \* (\d+)
Decimal == Cat(<<Plus(D), Opt(Lit(".")), Star(D)>>)     \* (\d+\.?\d*)
Year    == Times(D, 4)                                  \* (\d{4})

square_feet_match(text)     == re_search_group(SquareFeetLabel, Grouped, text, TRUE)
bedrooms_match(text)        == re_search_group(BedroomsLabel, Integer, text, TRUE)
bathrooms_match(text)       == re_search_group(BathroomsLabel, Decimal, text, TRUE)
estimated_value_match(text) == re_search_group(EstimatedValueLabel, Grouped, text, TRUE)
year_built_match(text)      == re_search_group(YearBuiltLabel, Year, text, TRUE)

PropertyDetails(sf, bd, bt, ev, yb) ==
    [square_feet |-> sf, bedrooms |-> bd, bathrooms |-> bt,
     estimated_value |-> ev, year_built |-> yb]
AbsentDetails == PropertyDetails(<<>>, <<>>, <<>>, <<>>, <<>>)

\* one field of the try block: .group(1) on None raises AttributeError, the
\* conversion may raise ValueError
Convert(conv, g) ==
    CASE conv = "float of grouped" -> float(remove_commas(g))
      [] conv = "float" -> float(g)
      [] conv = "int" -> int(g)
Converted(v) == IF v = <<>> THEN Raise("ValueError") ELSE Return(v[1])
Field(m, conv) ==
    IF m = None THEN Raise("AttributeError") ELSE Converted(Convert(conv, m[1]))

\* the five assignments in their order: the first that raises ends the try
\* block, otherwise the PropertyDetails is built
FirstRaiseOrDetails(fields) ==
    IF \E i \in 1..5 : fields[i].raised
    THEN fields[SetMin({i \in 1..5 : fields[i].raised})]
    ELSE Return(PropertyDetails(<<fields[1].value>>, <<fields[2].value>>, <<fields[3].value>>,
                                <<fields[4].value>>, <<fields[5].value>>))

\* the body of the try block of _get_property_details
DetailsBody(reply) ==
    IF reply.kind = "raise" THEN Raise(reply.exc)
    ELSE IF reply.kind = "none" THEN Raise("TypeError")
    ELSE FirstRaiseOrDetails(
             <<Field(square_feet_match(reply.text), "float of grouped"),
               Field(bedrooms_match(reply.text), "int"),
               Field(bathrooms_match(reply.text), "float"),
               Field(estimated_value_match(reply.text), "float of grouped"),
               Field(year_built_match(reply.text), "int")>>)

\* the except clause of _get_property_details
DetailsHandler(body) ==
    IF body.raised /\ body.exc \in {"AttributeError", "ValueError"}
    THEN Return(AbsentDetails)
    ELSE body

OrNone(r) == IF r.raised THEN <<>> ELSE <<r.value>>
\* variant: each field falls back to None on its own
_get_property_details_PerField(reply) ==
    IF reply.kind # "text" THEN DetailsBody(reply)
    ELSE Return(PropertyDetails(
             OrNone(Field(square_feet_match(reply.text), "float of grouped")),
             OrNone(Field(bedrooms_match(reply.text), "int")),
             OrNone(Field(bathrooms_match(reply.text), "float")),
             OrNone(Field(estimated_value_match(reply.text), "float of grouped")),
             OrNone(Field(year_built_match(reply.text), "int"))))

_get_property_details(reply) == DetailsHandler(DetailsBody(reply))

NameLabel     == Cat(<<Word(<<"N", "a", "m", "e", ":">>), Star(Sp)>>)
DistanceLabel == Cat(<<Word(<<"D", "i", "s", "t", "a", "n", "c", "e", ":">>), Star(Sp)>>)
RatingLabel   == Cat(<<Word(<<"R", "a", "t", "i", "n", "g", ":">>), Star(Sp)>>)
TypeLabel     == Cat(<<Word(<<"T", "y", "p", "e", ":">>), Star(Sp)>>)
RestOfLine    == Plus(NotCls({"\n"}))                    \* ([^\n]+)
SchoolType    == Alt(<<Word(<<"e", "l", "e", "m", "e", "n", "t", "a", "r", "y", " ", "s", "c", "h", "o", "o", "l">>),
                       Word(<<"m", "i", "d", "d", "l", "e", " ", "s", "c", "h", "o", "o", "l">>),
                       Word(<<"h", "i", "g", "h", " ", "s", "c", "h", "o", "o", "l">>)>>)

name_match(entry)     == re_search_group(NameLabel, RestOfLine, entry, TRUE)
distance_match(entry) == re_search_group(DistanceLabel, Decimal, entry, TRUE)
rating_match(entry)   == re_search_group(RatingLabel, Decimal, entry, TRUE)
type_match(entry)     == re_search_group(TypeLabel, SchoolType, entry, TRUE)

School(n, d, r, ty) == [name |-> n, distance |-> d, rating |-> r, type |-> ty]

\* str.split('\n\n'): cut at each occurrence of the separator, left to right
RECURSIVE split_blank(_)
RECURSIVE SplitAt(_, _)
split_blank(s) == SplitAt(s, {i \in 1..(Len(s) - 1) : s[i] = "\n" /\ s[i + 1] = "\n"})
SplitAt(s, cuts) ==
    IF cuts = {} THEN <<s>>
    ELSE <<SubSeq(s, 1, SetMin(cuts) - 1)>>
         \o split_blank(SubSeq(s, SetMin(cuts) + 2, Len(s)))

\* [entry.strip() for entry in school_text.split('\n\n') if entry.strip()]
StripAll(parts) == [i \in DOMAIN parts |-> strip(parts[i])]
school_entries(text) == SelectSeq(StripAll(split_blank(text)), LAMBDA e : e # <<>>)

\* the body of the if statement: the School is appended unless float raises
\* ValueError
AppendSchool(name, distance, rating, type) ==
    IF distance = <<>> \/ rating = <<>> THEN <<>>
    ELSE <<School(name, distance[1], rating[1], type)>>

\* the if statement of the loop body, given the four matches
IfAllMatch(nm, dm, rm, tm) ==
    IF nm # None /\ dm # None /\ rm # None /\ tm # None
    THEN AppendSchool(strip(nm[1]), float(dm[1]), float(rm[1]), lower(tm[1]))
    ELSE <<>>

Twice(s) == s \o s
\* variant: the School is appended once for the name and once for the type
ParseEntry_Twice(entry) ==
    Twice(IfAllMatch(name_match(entry), distance_match(entry),
                     rating_match(entry), type_match(entry)))

\* one pass of the for loop: the Schools this entry appends (none or one)
ParseEntry(entry) ==
    IfAllMatch(name_match(entry), distance_match(entry),
               rating_match(entry), type_match(entry))

RECURSIVE ParseEntries(_)
ParseEntries(entries) ==
    IF entries = <<>> THEN <<>>
    ELSE ParseEntry(Head(entries)) \o ParseEntries(Tail(entries))

\* None.split raises AttributeError; every exception gives the empty list
_get_nearby_schools(reply) ==
    IF reply.kind # "text" THEN <<>>
    ELSE ParseEntries(school_entries(reply.text))

\* a transport failure propagates; the text is returned as it is (or None)
_get_property_overview(reply) ==
    IF reply.kind = "raise" THEN Raise(reply.exc)
    ELSE IF reply.kind = "none" THEN Return(<<>>)
    ELSE Return(<<reply.text>>)

-----------------------------------------------------------------------------
(* Specifications that apply one validator to one argument, as the unit     *)
(* tests of test_home_info.py do.                                           *)

AllStrings(A, n) == UNION {[1..k -> A] : k \in 0..n}
Repeat(c, n) == [i \in 1..n |-> c]

\* the variables of the command-line flow, when main is not running
MainIdle ==
    /\ pc = "idle" /\ stdin = 0
    /\ street = None /\ city = None /\ state = None /\ zipcode = None
    /\ full_address = None /\ calls = 0 /\ requests = <<>> /\ pending = {}
    /\ overview = None /\ details = None /\ schools = None
    /\ home_info = None /\ out = <<>>

Apply(f, result) ==
    /\ fn = f /\ ret = <<>>
    /\ ret' = <<result>>
    /\ UNCHANGED <<fn, arg>>
    /\ UNCHANGED mainVars

\* ---- validate_zipcode ----------------------------------------------------
MaxZipAny == 4       \* every string over ZipAlphabet up to this length
MaxZipLead == 6      \* longest leading digit run of the structured inputs
MaxZipExt == 5       \* longest digit run after the separator

ZipAlphabet == {"0", "9", "-", "\n", " ", "a"}
ZipInputs ==
    AllStrings(ZipAlphabet, MaxZipAny) \cup
    {pre \o Repeat(d, a) \o mid \o Repeat(d, b) \o tail :
        pre \in {<<>>, <<" ">>, <<"\n">>},
        d \in {"0", "9"},
        a \in 0..MaxZipLead,
        mid \in {<<>>, <<"-">>, <<" ">>, <<"-", "-">>},
        b \in 0..MaxZipExt,
        tail \in {<<>>, <<"\n">>, <<"\n", "\n">>, <<" ">>, <<"a">>}}

InitZip == fn = "validate_zipcode" /\ arg \in ZipInputs /\ ret = <<>> /\ MainIdle
CallValidateZipcode == Apply("validate_zipcode", validate_zipcode(arg))
SpecZip == InitZip /\ [][CallValidateZipcode]_vars

\* ---- validate_state ------------------------------------------------------
MaxStateLen == 3

StateAlphabet == {"C", "A", "c", "a", "D", "P", "R", "Z", "N", "y", "1", " "}
StateInputs == AllStrings(StateAlphabet, MaxStateLen)

InitState == fn = "validate_state" /\ arg \in StateInputs /\ ret = <<>> /\ MainIdle
CallValidateState == Apply("validate_state", validate_state(arg))
SpecState == InitState /\ [][CallValidateState]_vars

\* ---- validate_street -----------------------------------------------------
MaxStreetAny == 6    \* every string over StreetAlphabet up to this length
MaxPad == 96         \* longest padding appended to a short street

StreetAlphabet == {"1", "a", "s", "t", " "}
StreetCores == {<<"1", " ", "a", " ", "s", "t">>,
                <<"1", " ", "A", " ", "S", "T">>,
                <<"1", " ", "s", "t">>,
                <<"1", "2", "3", " ", "S", "t">>,
                <<"1", " ", "a", " ", "b", "e", "s", "t">>,
                <<"1", " ", "a", " ", "s", "t", "o">>,
                <<"1", " ", "a", "_", " ", "s", "t">>,
                <<"1", " ", "a", "\n", "s", "t">>,
                <<"1", " ", "a", " ", "s", "t", "\n">>,
                <<"1", " ", "b", "-", "l", "n">>,
                <<"2", " ", "e", "l", "m", " ", "r", "o", "a", "d">>,
                <<"a", "v", "e", "n", "u", "e">>,
                <<"1", "2", "3">>}
StreetInputs ==
    AllStrings(StreetAlphabet, MaxStreetAny) \cup
    {core \o Repeat(c, n) : core \in StreetCores, c \in {" ", "x"},
                            n \in {0, 1} \cup (MaxPad - 6)..MaxPad}

InitStreet == fn = "validate_street" /\ arg \in StreetInputs /\ ret = <<>> /\ MainIdle
CallValidateStreet == Apply("validate_street", validate_street(arg))
SpecStreet == InitStreet /\ [][CallValidateStreet]_vars

\* ---- _get_property_details -------------------------------------------------
MaxChatter == 1      \* most lines of free text before the labelled lines

ChatterLine == <<"H", "e", "r", "e", " ", "a", "r", "e", " ", "t", "h", "e", " ", "d", "e", "t", "a", "i", "l", "s", ":", "\n">>
SquareFeetLines ==
    {<<"S", "q", "u", "a", "r", "e", " ", "F", "e", "e", "t", ":", " ", "1", ",", "2", "0", "0", "\n">>,
     <<"s", "q", "u", "a", "r", "e", " ", "f", "e", "e", "t", " ", "9", "8", "0", "\n">>,
     <<>>,
     <<"S", "q", "u", "a", "r", "e", " ", "F", "e", "e", "t", ":", " ", "n", "/", "a", "\n">>}
BedroomsLines ==
    {<<"B", "e", "d", "r", "o", "o", "m", "s", ":", " ", "3", "\n">>,
     <<"B", "e", "d", "r", "o", "o", "m", " ", "4", "\n">>,
     <<>>,
     <<"B", "e", "d", "r", "o", "o", "m", "s", ":", " ", "t", "h", "r", "e", "e", "\n">>}
BathroomsLines ==
    {<<"B", "a", "t", "h", "r", "o", "o", "m", "s", ":", " ", "2", "\n">>,
     <<"B", "A", "T", "H", "R", "O", "O", "M", "S", ":", "\n", "2", ".", "5", "\n">>,
     <<>>,
     <<"B", "a", "t", "h", "r", "o", "o", "m", "s", ":", " ", ".", "5", "\n">>}
EstimatedValueLines ==
    {<<"E", "s", "t", "i", "m", "a", "t", "e", "d", " ", "V", "a", "l", "u", "e", ":", " ", "$", "4", "5", "0", ",", "0", "0", "0", "\n">>,
     <<"E", "s", "t", "i", "m", "a", "t", "e", "d", " ", "V", "a", "l", "u", "e", ":", " ", "9", "9", "0", "0", "0", ".", "5", "0", "\n">>,
     <<>>,
     <<"E", "s", "t", "i", "m", "a", "t", "e", "d", " ", "V", "a", "l", "u", "e", ":", " ", "U", "S", "D", " ", "1", "\n">>}
YearBuiltLines ==
    {<<"Y", "e", "a", "r", " ", "B", "u", "i", "l", "t", ":", " ", "1", "9", "9", "5">>,
     <<"Y", "e", "a", "r", " ", "B", "u", "i", "l", "t", ":", " ", "2", "0", "0", "5", "1">>,
     <<>>,
     <<"Y", "e", "a", "r", " ", "B", "u", "i", "l", "t", ":", " ", "9", "5">>}

RECURSIVE Chatter(_)
Chatter(n) == IF n = 0 THEN <<>> ELSE ChatterLine \o Chatter(n - 1)

DetailsTexts ==
    {Chatter(n) \o sf \o bd \o bt \o ev \o yb :
        n \in 0..MaxChatter, sf \in SquareFeetLines, bd \in BedroomsLines,
        bt \in BathroomsLines, ev \in EstimatedValueLines, yb \in YearBuiltLines}

InitDetails == fn = "_get_property_details" /\ arg \in DetailsTexts /\ ret = <<>> /\ MainIdle
CallGetPropertyDetails ==
    Apply("_get_property_details", _get_property_details(TextReply(arg)))
SpecDetails == InitDetails /\ [][CallGetPropertyDetails]_vars

\* ---- _get_nearby_schools ---------------------------------------------------
MaxBlocks == 3       \* most blocks in a schools reply

BlockNames == <<"A", "B", "C", "D", "E", "F">>
BlockKinds == {"full", "lower", "norating", "badtype", "noname", "emptyname", "chatter"}

\* the text of block i of the given kind; its name and its distance carry i
BlockText(kind, i) ==
    LET nm == <<BlockNames[i]>>  dg == <<DigitSeq[i + 1]>>
    IN  CASE kind = "full" ->
               <<"N", "a", "m", "e", ":", " ">> \o nm \o <<" ", "H", "i", "g", "h">> \o <<"\n", "D", "i", "s", "t", "a", "n", "c", "e", ":", " ">> \o dg \o <<".", "5", " ", "m", "i", "l", "e", "s">>
               \o <<"\n", "R", "a", "t", "i", "n", "g", ":", " ", "8", "/", "1", "0">> \o <<"\n", "T", "y", "p", "e", ":", " ", "E", "l", "e", "m", "e", "n", "t", "a", "r", "y", " ", "S", "c", "h", "o", "o", "l">>
          [] kind = "lower" ->
               <<"1", ".", " ", "n", "a", "m", "e", ":">> \o nm \o <<"\n", "d", "i", "s", "t", "a", "n", "c", "e", ":">> \o dg
               \o <<"\n", "r", "a", "t", "i", "n", "g", ":", " ", "1", "0">> \o <<"\n", "t", "y", "p", "e", ":", " ", "M", "I", "D", "D", "L", "E", " ", "S", "C", "H", "O", "O", "L", " ", "(", "p", "u", "b", "l", "i", "c", ")">>
          [] kind = "norating" ->
               <<"N", "a", "m", "e", ":", " ">> \o nm \o <<" ", "H", "i", "g", "h">> \o <<"\n", "D", "i", "s", "t", "a", "n", "c", "e", ":", " ">> \o dg \o <<".", "5", " ", "m", "i", "l", "e", "s">>
               \o <<"\n", "R", "a", "t", "i", "n", "g", ":", " ", "N", "/", "A">> \o <<"\n", "T", "y", "p", "e", ":", " ", "h", "i", "g", "h", " ", "s", "c", "h", "o", "o", "l">>
          [] kind = "badtype" ->
               <<"N", "a", "m", "e", ":", " ">> \o nm \o <<" ", "H", "i", "g", "h">> \o <<"\n", "D", "i", "s", "t", "a", "n", "c", "e", ":", " ">> \o dg \o <<".", "5", " ", "m", "i", "l", "e", "s">>
               \o <<"\n", "R", "a", "t", "i", "n", "g", ":", " ", "8", "/", "1", "0">> \o <<"\n", "T", "y", "p", "e", ":", " ", "p", "r", "i", "v", "a", "t", "e", " ", "s", "c", "h", "o", "o", "l">>
          [] kind = "noname" ->
               <<"D", "i", "s", "t", "a", "n", "c", "e", ":", " ">> \o dg \o <<".", "5", " ", "m", "i", "l", "e", "s">>
               \o <<"\n", "R", "a", "t", "i", "n", "g", ":", " ", "8", "/", "1", "0">> \o <<"\n", "T", "y", "p", "e", ":", " ", "m", "i", "d", "d", "l", "e", " ", "s", "c", "h", "o", "o", "l">>
          [] kind = "emptyname" ->
               <<"N", "a", "m", "e", ":">> \o <<"\n", "D", "i", "s", "t", "a", "n", "c", "e", ":", " ">> \o dg \o <<".", "5", " ", "m", "i", "l", "e", "s">>
               \o <<"\n", "R", "a", "t", "i", "n", "g", ":", " ", "8", "/", "1", "0">> \o <<"\n", "T", "y", "p", "e", ":", " ", "h", "i", "g", "h", " ", "s", "c", "h", "o", "o", "l">>
          [] kind = "chatter" -> <<"N", "o", " ", "d", "a", "t", "a", " ", "f", "o", "r", " ", "s", "c", "h", "o", "o", "l", " ">> \o nm

Separators == {<<"\n", "\n">>, <<"\n", "\n", "\n">>}

RECURSIVE JoinBlocks(_, _, _)
JoinBlocks(kinds, i, sep) ==
    IF i > Len(kinds) THEN <<>>
    ELSE BlockText(kinds[i], i) \o (IF i < Len(kinds) THEN sep ELSE <<"\n">>)
         \o JoinBlocks(kinds, i + 1, sep)

\* arg of this specification: the kinds of the blocks and the separator
SchoolsInputs ==
    {[kinds |-> k, sep |-> s] :
        k \in UNION {[1..n -> BlockKinds] : n \in 0..MaxBlocks}, s \in Separators}
SchoolsText(a) == JoinBlocks(a.kinds, 1, a.sep)

InitSchools == fn = "_get_nearby_schools" /\ arg \in SchoolsInputs /\ ret = <<>> /\ MainIdle
CallGetNearbySchools ==
    Apply("_get_nearby_schools", _get_nearby_schools(TextReply(SchoolsText(arg))))
SpecSchools == InitSchools /\ [][CallGetNearbySchools]_vars

-----------------------------------------------------------------------------
(* main: the command-line flow.  arg holds what the environment does:        *)
(* whether OPENAI_API_KEY is set, and each reply of the service once it has  *)
(* arrived.  The flow is cut where the program blocks: at each input() and   *)
(* at each generation request.                                               *)

MaxInputs == 5       \* most input() calls of one run
MaxMainBlocks == 4   \* most blocks of a schools reply of a run of main

StreetLines == {<<" ", "1", "2", " ", "O", "a", "k", " ", "S", "t", " ">>, <<"7", " ", "E", "l", "m", " ", "R", "o", "a", "d">>,
                <<"1", "2", " ", "S", "t">>}
CityLines == {<<"S", "a", "l", "e", "m", " ">>, <<"S", "a", "l", "e", "m", " ", "2">>}
StateLines == {<<" ", "o", "r">>, <<"z", "z">>}
ZipLines == {<<"9", "0", "2", "1", "0">>, <<"9", "7", "3", "0", "1", "-", "1", "2", "3", "4", "\n">>, <<"9", "0", "2", "1">>}

TransportErrors == {"APIConnectionError"}
OverviewReplies == {TextReply(<<"A", " ", "n", "i", "c", "e", " ", "h", "o", "m", "e", ".">>), NoneReply}
                   \cup {RaiseReply(e) : e \in TransportErrors}
DetailsReplies ==
    {TextReply(<<"S", "q", "u", "a", "r", "e", " ", "F", "e", "e", "t", ":", " ", "1", ",", "2", "0", "0", "\n", "B", "e", "d", "r", "o", "o", "m", "s", ":", " ", "3", "\n", "B", "a", "t", "h", "r", "o", "o", "m", "s", ":", " ", "2", "\n", "E", "s", "t", "i", "m", "a", "t", "e", "d", " ", "V", "a", "l", "u", "e", ":", " ", "$", "4", "5", "0", ",", "0", "0", "0", "\n", "Y", "e", "a", "r", " ", "B", "u", "i", "l", "t", ":", " ", "1", "9", "9", "5">>),
     TextReply(<<"S", "q", "u", "a", "r", "e", " ", "F", "e", "e", "t", ":", " ", "1", ",", "2", "0", "0", "\n", "B", "a", "t", "h", "r", "o", "o", "m", "s", ":", " ", "2", "\n", "E", "s", "t", "i", "m", "a", "t", "e", "d", " ", "V", "a", "l", "u", "e", ":", " ", "$", "4", "5", "0", ",", "0", "0", "0", "\n", "Y", "e", "a", "r", " ", "B", "u", "i", "l", "t", ":", " ", "1", "9", "9", "5">>),
     NoneReply}
    \cup {RaiseReply(e) : e \in TransportErrors}
SchoolsReplies ==
    {TextReply(JoinBlocks([i \in 1..n |-> "full"], 1, <<"\n", "\n">>)) : n \in 0..MaxMainBlocks}
    \cup {TextReply(JoinBlocks(<<"full", "norating", "lower">>, 1, <<"\n", "\n">>)),
          NoneReply}
    \cup {RaiseReply(e) : e \in TransportErrors}

NoReply == [kind |-> "pending", text |-> <<>>, exc |-> ""]

Line(tag, i) == [tag |-> tag, i |-> i]
Say(tag) == <<Line(tag, 0)>>

HomeInformation(a, o, d, s) ==
    [address |-> a, overview |-> o, details |-> d, nearby_schools |-> s]

\* f"{street}, {city}, {state} {zipcode}"
FullAddress(st, ci, sa, zi) == st \o <<",", " ">> \o ci \o <<",", " ">> \o sa \o <<" ">> \o zi

\* the except clauses of main: ValueError, then every other exception
Report(exc) == IF exc = "ValueError" THEN Say("Error") ELSE Say("unexpected error")

\* the prints after get_home_information has returned; formatting None with
\* ",.2f" raises TypeError, which ends the prints
PrintHomeInfo(hi) ==
    Say("Property Overview:") \o Say("overview")
    \o Say("Property Details:") \o Say("square_feet")
    \o Say("bedrooms") \o Say("bathrooms")
    \o (IF hi.details.estimated_value = <<>>
        THEN Report("TypeError")
        ELSE Say("estimated_value") \o Say("year_built")
             \o Say("Nearby Schools:")
             \o [i \in 1..Len(hi.nearby_schools) |-> Line("school", i)])

InitMain ==
    /\ fn = "main" /\ ret = <<>>
    /\ arg \in [api_key : BOOLEAN, overview : {NoReply},
                details : {NoReply}, schools : {NoReply}]
    /\ pc = "start" /\ stdin = 0
    /\ street = <<>> /\ city = <<>> /\ state = <<>> /\ zipcode = <<>>
    /\ full_address = <<>> /\ calls = 0 /\ requests = <<>> /\ pending = {}
    /\ overview = <<>> /\ details = <<>> /\ schools = <<>>
    /\ home_info = <<>> /\ out = <<>>

retrieveVars == <<full_address, calls, requests, pending, overview, details,
                  schools, home_info>>

\* retriever = HomeInfoRetriever(), then the first prompt
Construct ==
    /\ pc = "start"
    /\ IF arg.api_key
       THEN pc' = "street" /\ out' = out \o Say("prompt street")
       ELSE pc' = "done" /\ out' = out \o Report("ValueError")
    /\ UNCHANGED <<fn, arg, ret, stdin, street, city, state, zipcode>>
    /\ UNCHANGED retrieveVars

\* input() raised EOFError: main reports it and ends
InputEOF ==
    /\ pc \in {"street", "city", "state", "zip"}
    /\ stdin < MaxInputs
    /\ stdin' = stdin + 1
    /\ pc' = "done"
    /\ out' = out \o Report("EOFError")
    /\ UNCHANGED <<fn, arg, ret, street, city, state, zipcode>>
    /\ UNCHANGED retrieveVars

InputStreet ==
    /\ pc = "street" /\ stdin < MaxInputs
    /\ \E line \in StreetLines :
          /\ street' = strip(line)
          /\ IF validate_street(street')
             THEN pc' = "city" /\ out' = out \o Say("prompt city")
             ELSE pc' = "street" /\ out' = out \o Say("Invalid street") \o Say("prompt street")
    /\ stdin' = stdin + 1
    /\ UNCHANGED <<fn, arg, ret, city, state, zipcode>>
    /\ UNCHANGED retrieveVars

InputCity ==
    /\ pc = "city" /\ stdin < MaxInputs
    /\ \E line \in CityLines :
          /\ city' = strip(line)
          /\ IF validate_city(city')
             THEN pc' = "state" /\ out' = out \o Say("prompt state")
             ELSE pc' = "city" /\ out' = out \o Say("Invalid city") \o Say("prompt city")
    /\ stdin' = stdin + 1
    /\ UNCHANGED <<fn, arg, ret, street, state, zipcode>>
    /\ UNCHANGED retrieveVars

\* variant: the state is accepted without being validated
InputState_NoCheck ==
    /\ pc = "state" /\ stdin < MaxInputs
    /\ \E line \in StateLines :
          /\ state' = upper(strip(line))
          /\ pc' = "zip" /\ out' = out \o Say("prompt zip")
    /\ stdin' = stdin + 1
    /\ UNCHANGED <<fn, arg, ret, street, city, zipcode>>
    /\ UNCHANGED retrieveVars

InputState ==
    /\ pc = "state" /\ stdin < MaxInputs
    /\ \E line \in StateLines :
          /\ state' = upper(strip(line))
          /\ IF validate_state(state')
             THEN pc' = "zip" /\ out' = out \o Say("prompt zip")
             ELSE pc' = "state" /\ out' = out \o Say("Invalid state") \o Say("prompt state")
    /\ stdin' = stdin + 1
    /\ UNCHANGED <<fn, arg, ret, street, city, zipcode>>
    /\ UNCHANGED retrieveVars

\* the last prompt; an accepted ZIP goes on to build the address, call
\* get_home_information and issue the overview request
InputZip ==
    /\ pc = "zip" /\ stdin < MaxInputs
    /\ \E line \in ZipLines :
          /\ zipcode' = strip(line)
          /\ IF validate_zipcode(zipcode')
             THEN /\ full_address' = FullAddress(street, city, state, zipcode')
                  /\ calls' = calls + 1
                  /\ requests' = requests \o <<"overview">>
                  /\ pending' = pending \cup {"overview"}
                  /\ pc' = "overview"
                  /\ out' = out
             ELSE /\ pc' = "zip" /\ out' = out \o Say("Invalid zip") \o Say("prompt zip")
                  /\ UNCHANGED <<full_address, calls, requests, pending>>
    /\ stdin' = stdin + 1
    /\ UNCHANGED <<fn, arg, ret, street, city, state, overview, details, schools, home_info>>

\* get_home_information wraps whatever escapes its try block; main reports it
Fail(exc) ==
    /\ home_info' = <<[raised |-> TRUE, exc |-> "Exception", value |-> <<exc>>]>>
    /\ out' = out \o Report("Exception")
    /\ pc' = "done"

\* line 72 has returned or raised r; on a return the details request is issued
OverviewDone(r) ==
    IF r.raised
    THEN /\ Fail(r.exc)
         /\ pending' = pending \ {"overview"}
         /\ UNCHANGED <<overview, requests>>
    ELSE /\ overview' = r.value
         /\ requests' = requests \o <<"details">>
         /\ pending' = (pending \ {"overview"}) \cup {"details"}
         /\ pc' = "details"
         /\ UNCHANGED <<home_info, out>>

\* the overview request completes
OverviewReply ==
    /\ pc = "overview"
    /\ \E reply \in OverviewReplies :
          /\ arg' = [arg EXCEPT !.overview = reply]
          /\ OverviewDone(_get_property_overview(reply))
    /\ UNCHANGED <<fn, ret, stdin, street, city, state, zipcode,
                   full_address, calls, details, schools>>

\* line 73 has returned or raised r; on a return the schools request is issued
DetailsDone(r) ==
    IF r.raised
    THEN /\ Fail(r.exc)
         /\ pending' = pending \ {"details"}
         /\ UNCHANGED <<details, requests>>
    ELSE /\ details' = <<r.value>>
         /\ requests' = requests \o <<"schools">>
         /\ pending' = (pending \ {"details"}) \cup {"schools"}
         /\ pc' = "schools"
         /\ UNCHANGED <<home_info, out>>

DetailsDone_NotAwaited(r) ==
    IF r.raised
    THEN /\ Fail(r.exc)
         /\ pending' = pending \ {"details"}
         /\ UNCHANGED <<details, requests>>
    ELSE /\ details' = <<r.value>>
         /\ requests' = requests \o <<"schools">>
         /\ pending' = pending \cup {"schools"}
         /\ pc' = "schools"
         /\ UNCHANGED <<home_info, out>>

\* variant: the schools request is issued while the details request is pending
DetailsReply_NotAwaited ==
    /\ pc = "details"
    /\ \E reply \in DetailsReplies :
          /\ arg' = [arg EXCEPT !.details = reply]
          /\ DetailsDone_NotAwaited(_get_property_details(reply))
    /\ UNCHANGED <<fn, ret, stdin, street, city, state, zipcode,
                   full_address, calls, overview, schools>>

\* the details request completes
DetailsReply ==
    /\ pc = "details"
    /\ \E reply \in DetailsReplies :
          /\ arg' = [arg EXCEPT !.details = reply]
          /\ DetailsDone(_get_property_details(reply))
    /\ UNCHANGED <<fn, ret, stdin, street, city, state, zipcode,
                   full_address, calls, overview, schools>>

\* the schools request completes; get_home_information returns and main prints
SchoolsReply ==
    /\ pc = "schools"
    /\ \E reply \in SchoolsReplies :
          /\ arg' = [arg EXCEPT !.schools = reply]
          /\ schools' = <<_get_nearby_schools(reply)>>
    /\ home_info' = <<Return(HomeInformation(full_address, overview, details[1], schools'[1]))>>
    /\ out' = out \o PrintHomeInfo(home_info'[1].value)
    /\ pending' = pending \ {"schools"}
    /\ pc' = "done"
    /\ UNCHANGED <<fn, ret, stdin, street, city, state, zipcode,
                   full_address, calls, requests, overview, details>>

Next ==
    \/ Construct
    \/ InputEOF
    \/ InputStreet
    \/ InputCity
    \/ InputState
    \/ InputZip
    \/ OverviewReply
    \/ DetailsReply
    \/ SchoolsReply

Spec == InitMain /\ [][Next]_vars

-----------------------------------------------------------------------------
AllDigits(s) == \A i \in DOMAIN s : s[i] \in Digit
IsZip5(s) == Len(s) = 5 /\ AllDigits(s)
IsZip9(s) == Len(s) = 10 /\ AllDigits(SubSeq(s, 1, 5)) /\ s[6] = "-"
             /\ AllDigits(SubSeq(s, 7, 10))
\* C4: validate_zipcode(s) is true iff the whole of s is NNNNN or NNNNN-NNNN.
C4_ZipExact ==
    (fn = "validate_zipcode" /\ ret # <<>>) =>
        (ret[1] <=> (IsZip5(arg) \/ IsZip9(arg)))

\* C8: validate_state(s) is true iff s has two alphabetic characters whose
\* upper-cased form is one of the 50 state postal codes.
C8_StateExact ==
    (fn = "validate_state" /\ ret # <<>>) =>
        (ret[1] <=> (/\ Len(arg) = 2
                  /\ (\A i \in 1..Len(arg) : arg[i] \in Letter)
                  /\ (\E code \in valid_states :
                        \A k \in 1..2 : upper_char(arg[k]) = code[k])))

NonWordAt(s, p) == p < 1 \/ p > Len(s) \/ s[p] \notin WordChar
TokenAt(s, tok, l) ==
    l + Len(tok) <= Len(s) /\ SubSeq(s, l + 1, l + Len(tok)) = tok
WholeWordToken(s) ==
    \E i \in DOMAIN StreetTypes : \E l \in 1..Len(s) :
        /\ TokenAt(s, StreetTypes[i], l)
        /\ NonWordAt(s, l)
        /\ NonWordAt(s, l + Len(StreetTypes[i]) + 1)
\* C5 (as stated): validate_street(s) is true iff the trimmed length is at
\* least 5, the raw length at most 100, and the lower-cased s starts with
\* digits followed eventually by a street-type token standing as a whole word.
C5_StreetAsStated ==
    (fn = "validate_street" /\ ret # <<>>) =>
        (ret[1] <=> (/\ Len(strip(arg)) >= 5
                     /\ Len(arg) <= 100
                     /\ arg[1] \in Digit
                     /\ WholeWordToken(lower(arg))))

NameThenToken(s) ==
    \E j \in 1..Len(s) : \E k \in (j + 1)..Len(s) :
        /\ NonWordAt(s, j)
        /\ \A x \in (j + 1)..k : s[x] \in Range(LowerLetters)
        /\ NonWordAt(s, k + 1)
        /\ \E i \in DOMAIN StreetTypes : \E l \in k..Len(s) :
              /\ TokenAt(s, StreetTypes[i], l)
              /\ NonWordAt(s, l + Len(StreetTypes[i]) + 1)
              /\ \A x \in 1..(l + Len(StreetTypes[i])) : s[x] # "\n"
\* C5 (amended): validate_street(s) is true iff the trimmed length is at
\* least 5, the raw length at most 100, and the lower-cased s starts with a
\* digit, then has a whole word made only of letters, and after that word a
\* street-type token that ends at a word boundary, all on the first line.
C5_StreetNameThenToken ==
    (fn = "validate_street" /\ ret # <<>>) =>
        (ret[1] <=> (/\ Len(strip(arg)) >= 5
                     /\ Len(arg) <= 100
                     /\ arg[1] \in Digit
                     /\ NameThenToken(lower(arg))))
C5_Witness ==
    /\ fn = "validate_street" /\ ret = <<TRUE>>
    /\ ~WholeWordToken(lower(arg))
C5_WitnessNoName ==
    /\ fn = "validate_street" /\ ret = <<FALSE>>
    /\ Len(strip(arg)) >= 5 /\ arg[1] \in Digit /\ WholeWordToken(lower(arg))

DetailsFields == {"square_feet", "bedrooms", "bathrooms", "estimated_value", "year_built"}
Contains(s, w) ==
    \E l \in 0..(Len(s) - Len(w)) : lower(SubSeq(s, l + 1, l + Len(w))) = lower(w)
LabelWords == {<<"S", "q", "u", "a", "r", "e">>, <<"F", "e", "e", "t">>, <<"B", "e", "d", "r", "o", "o", "m">>, <<"B", "a", "t", "h", "r", "o", "o", "m">>, <<"E", "s", "t", "i", "m", "a", "t", "e", "d">>, <<"V", "a", "l", "u", "e">>, <<"Y", "e", "a", "r">>, <<"B", "u", "i", "l", "t">>}
LacksALabel(text) ==
    \/ \E w \in LabelWords : ~Contains(text, w)
    \/ None \in {square_feet_match(text), bedrooms_match(text), bathrooms_match(text),
                 estimated_value_match(text), year_built_match(text)}
\* C2: the PropertyDetails returned by _get_property_details has all five
\* fields present or all five absent; when the text lacks a match for one of
\* the five labels, all five are absent.
C2_DetailsAllOrNothing ==
    (fn = "_get_property_details" /\ ret # <<>>) =>
        /\ ~ret[1].raised
        /\ \/ \A f \in DetailsFields : ret[1].value[f] # <<>>
           \/ \A f \in DetailsFields : ret[1].value[f] = <<>>
        /\ LacksALabel(arg) => ret[1].value = AbsentDetails
C2_Witness ==
    /\ fn = "_get_property_details" /\ ret # <<>>
    /\ ~Contains(arg, <<"B", "e", "d", "r", "o", "o", "m">>) /\ Contains(arg, <<"F", "e", "e", "t">>)
    /\ square_feet_match(arg) # None
    /\ ret[1].value = AbsentDetails
C2_WitnessAllPresent ==
    /\ fn = "_get_property_details" /\ ret # <<>>
    /\ \A f \in DetailsFields : ret[1].value[f] # <<>>

HasFourFields(kind) == kind \in {"full", "lower"}
RECURSIVE GoodBlocks(_, _)
GoodBlocks(kinds, i) ==
    IF i > Len(kinds) THEN <<>>
    ELSE (IF HasFourFields(kinds[i]) THEN <<i>> ELSE <<>>) \o GoodBlocks(kinds, i + 1)
\* C3 (as stated): _get_nearby_schools returns exactly the blocks that have
\* all four fields (a name, a distance, a rating, an allowed type), in their
\* order of appearance; every other block is skipped.
C3_ExactlyTheCompleteBlocks ==
    (fn = "_get_nearby_schools" /\ ret # <<>>) =>
        LET good == GoodBlocks(arg.kinds, 1)
        IN  /\ Len(ret[1]) = Len(good)
            /\ \A k \in DOMAIN good :
                  /\ ret[1][k].distance.int = good[k]
                  /\ ret[1][k].name[Len(ret[1][k].name)
                        - (IF arg.kinds[good[k]] = "full" THEN 5 ELSE 0)] = BlockNames[good[k]]

Finished == home_info # <<>>
Returned == Finished /\ ~home_info[1].raised
Raised == Finished /\ home_info[1].raised
\* C1 (as stated): when the overview request succeeds, get_home_information
\* does not raise, whatever happens to the details and schools requests.
C1_RaisesOnlyWhenOverviewThrows ==
    (Finished /\ arg.overview.kind # "raise") => Returned

\* C6 (as stated): nearby_schools of the returned HomeInformation has at most
\* three entries.
C6_AtMostThreeSchools ==
    Returned => Len(home_info[1].value.nearby_schools) <= 3

BlocksOf(reply) == IF reply.kind = "text" THEN Len(school_entries(reply.text)) ELSE 0
\* C6 (amended): nearby_schools has at most as many entries as the schools
\* reply has non-empty blocks separated by empty lines, and none when the
\* reply has no text.
C6_AtMostOnePerBlock ==
    Returned => Len(home_info[1].value.nearby_schools) <= BlocksOf(arg.schools)
C6_Witness ==
    Returned /\ Len(home_info[1].value.nearby_schools) = 4

RequestOrder == <<"overview", "details", "schools">>
OneAtATime ==
    /\ Len(requests) <= 3
    /\ \A i \in DOMAIN requests : requests[i] = RequestOrder[i]
    /\ pending \subseteq (IF requests = <<>> THEN {} ELSE {requests[Len(requests)]})
\* C7 (as stated): every call of get_home_information issues exactly the three
\* requests overview, details, schools, one at a time.
C7_ExactlyThreeRequests ==
    /\ OneAtATime
    /\ Finished => requests = RequestOrder

\* the replies that make a step raise out of get_home_information
Escapes(request) ==
    CASE request = "overview" -> arg.overview.kind = "raise"
      [] request = "details"  -> arg.details.kind \in {"raise", "none"}
      [] request = "schools"  -> FALSE
\* C7 (amended): the requests of a call are issued in the order overview,
\* details, schools, each after the previous one has completed; a call that
\* returns has issued all three, a call that raises has issued only those up
\* to the request whose failure it reports.
C7_InOrderUntilFailure ==
    /\ OneAtATime
    /\ calls = 0 => requests = <<>>
    /\ Returned => requests = RequestOrder /\ pending = {}
    /\ Raised => /\ pending = {}
                 /\ Len(requests) \in {1, 2}
                 /\ Escapes(requests[Len(requests)])
                 /\ \A i \in 1..(Len(requests) - 1) : ~Escapes(requests[i])
C7_Witness == Returned /\ requests = RequestOrder /\ stdin > 4
C7_WitnessRaised == Raised /\ requests = <<"overview">>

Printed(l) == \E i \in DOMAIN out : out[i] = l
\* C9 (as stated): whenever get_home_information returns, main prints the
\* overview, the five details and every school, and no error message.
C9_PrintsEverything ==
    Returned =>
        /\ \A tag \in {"overview", "square_feet", "bedrooms", "bathrooms",
                       "estimated_value", "year_built"} : Printed(Line(tag, 0))
        /\ \A i \in DOMAIN home_info[1].value.nearby_schools : Printed(Line("school", i))
        /\ ~Printed(Line("unexpected error", 0)) /\ ~Printed(Line("Error", 0))

Prompting == {"street", "city", "state", "zip"}
C10_Step ==
    /\ pc = "start" => pc' \in {"street", "done"}
    /\ pc = "street" => /\ pc' \in {"street", "city", "done"}
                        /\ pc' = "city" => validate_street(street')
                        /\ pc' = "street" => ~validate_street(street')
    /\ pc = "city" => /\ pc' \in {"city", "state", "done"}
                      /\ pc' = "state" => validate_city(city')
                      /\ pc' = "city" => ~validate_city(city')
    /\ pc = "state" => /\ pc' \in {"state", "zip", "done"}
                       /\ pc' = "zip" => validate_state(state')
                       /\ pc' = "state" => ~validate_state(state')
    /\ pc = "zip" => /\ pc' \in {"zip", "overview", "done"}
                     /\ pc' = "overview" => validate_zipcode(zipcode') /\ calls' = 1
                     /\ pc' = "zip" => ~validate_zipcode(zipcode')
    /\ pc' \in Prompting \cup {"start"} => calls' = 0
    /\ calls' <= 1
    /\ calls' = 1 =>
          /\ validate_street(street') /\ validate_city(city')
          /\ validate_state(state') /\ validate_zipcode(zipcode')
          /\ full_address' = street' \o <<",", " ">> \o city' \o <<",", " ">>
                             \o state' \o <<" ">> \o zipcode'
\* C10: main prompts for street, city, state and ZIP in that order, stays on
\* a field until its input validates, and calls get_home_information at most
\* once, after all four have validated, with the address made of the four
\* accepted values.
C10_ValidatedThenOneCall == [][C10_Step]_vars
C10_Witness == calls = 1 /\ stdin = MaxInputs /\ Printed(Line("Invalid state", 0))
C8_Witness == fn = "validate_state" /\ ret = <<TRUE>> /\ arg # upper(arg)
C8_WitnessDC == fn = "validate_state" /\ ret = <<FALSE>> /\ arg = <<"D", "C">>
====
